---- MODULE Spec2Model ----
(***************************************************************************)
(* Model of the MCP Todoist tool layer: the thirteen tool orchestrators of *)
(* tools/tasks.py, tools/projects.py and tools/labels.py, the client       *)
(* facade of client.py and the error taxonomy of utils/error_handling.py.  *)
(*                                                                         *)
(* One invocation runs at a time.  Every await of a facade method is one   *)
(* step: the remote call is issued, the remote service answers (any record *)
(* or collection of the bounded universe, or an exception), the facade     *)
(* maps the answer, and the orchestrator runs on to its next await or to   *)
(* its end.  `calls` is the log of the remote calls of the invocation.     *)
(***************************************************************************)
EXTENDS Integers, Sequences, FiniteSets, TLC

(***************************************************************************)
(* Bounds of the model.                                                    *)
(***************************************************************************)
\* longest collection the remote service returns to a name lookup
MaxColl == 2
\* longest short listing the remote service returns to a list tool
MaxListing == 3

(***************************************************************************)
(* Program constants.                                                      *)
(***************************************************************************)
\* "minimum"/"maximum"/"default" of the limit property of the list tools
LimitMin == 1
LimitMax == 100
LimitDefault == 50
\* sort key of a record that has no order
OrderDefault == 999

(***************************************************************************)
(* Values.                                                                 *)
(***************************************************************************)
\* a key that is not in the argument mapping / Python None
Absent == "<absent>"
\* an optional integer is <<>> (absent) or <<n>>
NoInt == <<>>

\* Python truthiness of an optional string: None and "" are falsy
Truthy(v) == v # Absent /\ v # ""
\* Python truthiness of an optional integer: None and 0 are falsy
TruthyInt(v) == v # NoInt /\ v[1] # 0

\* an optional boolean is <<>> (absent) or <<b>>
NoBool == <<>>
\* `arguments.get(key, default)` on an optional boolean
GetOr(v, default) == IF v = NoBool THEN default ELSE v[1]

\* identifiers the remote service gives to projects and labels
EntityIds == {"6", "7", "8"}
\* display names held by the remote service
EntityNames == {"Home", "Work"}
\* names a caller may give
GivenNames == {"home", "Nowhere"}

\* str.lower() on the names of the universe
Lower(s) ==
  CASE s = "Home" -> "home"
    [] s = "Work" -> "work"
    [] s = "Nowhere" -> "nowhere"
    [] OTHER -> s

Entity(id, name, parent) == [id |-> id, name |-> name, parent_id |-> parent]

Range(s) == {s[i] : i \in DOMAIN s}
SetMin(S) == CHOOSE x \in S : \A y \in S : x <= y
Injective(s) == \A i, j \in DOMAIN s : i # j => s[i].id # s[j].id

\* sequences of at most n entities with distinct identifiers
SeqsUpTo(S, n) == UNION {[1..k -> S] : k \in 0..n}
Collections ==
  {c \in SeqsUpTo({Entity(i, n, Absent) : i \in EntityIds, n \in EntityNames}, MaxColl) :
     Injective(c)}
\* a record of a listing: an entity and its order, <<>> when it has none
Listed(id, name, parent, order) ==
  [id |-> id, name |-> name, parent_id |-> parent, order |-> order]
\* a flat listing of n records in their order
BigCollection(n) == [i \in 1..n |-> Listed(ToString(i), "Work", Absent, <<i>>)]
\* one listing longer than the default limit, one longer than the greatest
LongListings == {BigCollection(n) : n \in {LimitDefault + 1, LimitMax + 1}}
\* what get_tasks returns to list-tasks
Listings == {BigCollection(n) : n \in 0..MaxListing} \cup LongListings
\* what get_projects returns to list-projects: every record is a root or
\* names a record of the listing as its parent, and has order 1 or none
ProjectListings ==
  UNION {{[i \in 1..n |-> Listed(ToString(i), "Work", par[i], ord[i])] :
            par \in [1..n -> {Absent} \cup {ToString(j) : j \in 1..n}],
            ord \in [1..n -> {NoInt, <<1>>}]} : n \in 0..MaxListing}
  \cup LongListings
\* what get_labels returns to list-labels: orders 0, 1 or none
LabelListings ==
  UNION {{[i \in 1..n |-> Listed(ToString(i), "Work", Absent, ord[i])] :
            ord \in [1..n -> {NoInt, <<0>>, <<1>>}]} : n \in 0..MaxListing}
  \cup LongListings

(***************************************************************************)
(* Error taxonomy and the normalization decorator.                         *)
(***************************************************************************)
\* texts of the exceptions the remote SDK raises, as word sequences
ExcTexts == {<<"401", "Unauthorized">>, <<"503", "Service", "Unavailable">>}

\* (mutation of ContainsUnauthorized: the text must start with the word)
ContainsUnauthorized_Prefix(text) == text # <<>> /\ text[1] = "Unauthorized"

\* `"Unauthorized" in str(e)`
ContainsUnauthorized(text) == \E i \in DOMAIN text : text[i] = "Unauthorized"

\* (mutation of RoundTrips: a failed remote call is issued a second time)
RoundTrips_Retry == 1 + 1

\* remote calls one facade method makes: a single run_in_executor inside its
\* try block, outside any loop
RoundTrips == 1

\* what a facade method hands to its caller: the value returned, or the error
\* raised; raw keeps the text of the exception the remote call raised and
\* trips counts the remote calls the method made
Ok(v) == [kind |-> "ok", msg |-> <<>>, val |-> v, raw |-> <<>>, trips |-> RoundTrips]
Err(kind, msg, raw) ==
  [kind |-> kind, msg |-> msg, val |-> Absent, raw |-> raw, trips |-> RoundTrips]

\* (mutation of FacadeExcept: the text of the exception is dropped)
FacadeExcept_NoText(what, text) ==
  IF ContainsUnauthorized(text)
    THEN Err("AuthenticationError", <<"Invalid or expired Todoist API token">>, text)
    ELSE Err("TodoistError", <<"Failed to " \o what>>, text)

\* the except clause every facade method ends with
FacadeExcept(what, text) ==
  IF ContainsUnauthorized(text)
    THEN Err("AuthenticationError", <<"Invalid or expired Todoist API token">>, text)
    ELSE Err("TodoistError", <<"Failed to " \o what \o ":">> \o text, text)

\* what one facade method can hand back: a value of vals, or a mapped error
Returns(what, vals) ==
  {Ok(v) : v \in vals} \cup {FacadeExcept(what, t) : t \in ExcTexts}

\* an exception: its class, the words of its text, and its details
Exc(kind, msg, details) == [kind |-> kind, msg |-> msg, details |-> details]

\* the classes of the taxonomy: MCPError and its three subclasses
IsMCPError(kind) ==
  kind \in {"MCPError", "ValidationError", "AuthenticationError", "TodoistError"}

\* ValueError and its subclasses; the validation error of the input models
\* is one of them, KeyError and TypeError are not
IsValueError(kind) == kind \in {"ValueError", "PydanticValidationError"}

\* `"todoist" in str(e).lower()`
ContainsTodoist(msg) == \E i \in DOMAIN msg : msg[i] \in {"todoist", "Todoist", "TODOIST"}

\* the except clauses of the decorator's wrapper, for an exception e raised
\* inside its try block by the call of func
wrapper(func, e) ==
  IF IsMCPError(e.kind) THEN e
  ELSE IF IsValueError(e.kind) THEN Exc("ValidationError", e.msg, Absent)
  ELSE IF ContainsTodoist(e.msg)
    THEN Exc("TodoistError", <<"Todoist API error:">> \o e.msg, func)
    ELSE Exc("MCPError", <<"An unexpected error occurred:">> \o e.msg, func)

\* handle_exceptions(func): the wrapper is a plain function whose try block
\* holds `return func(*args, **kwargs)`.  Every decorated func is a coroutine
\* function, so that call only binds the arguments and returns the coroutine:
\* an exception raised while binding (in_call) meets the except clauses, an
\* exception raised by the body, when the coroutine is awaited after the
\* wrapper has returned, does not
handle_exceptions(func, e, in_call) == IF in_call THEN wrapper(func, e) ELSE e

\* (mutation of TodoistClient: the missing credential is not detected)
TodoistClient_Unchecked(api_token, configured) == Exc("ok", <<>>, Absent)

\* TodoistClient.__init__: `self.api_token = api_token or config.todoist.api_token`
\* and the AuthenticationError when neither is given
TodoistClient(api_token, configured) ==
  LET api_token_ == IF Truthy(api_token) THEN api_token ELSE configured
  IN  IF ~Truthy(api_token_)
        THEN Exc("AuthenticationError", <<"Todoist API token not provided">>, Absent)
        ELSE Exc("ok", <<>>, Absent)

(***************************************************************************)
(* State.                                                                  *)
(***************************************************************************)
VARIABLES
  pc,       \* position of the invocation: "idle", an await point, "done"
  tool,     \* name of the tool being run
  args,     \* the argument mapping the tool was called with
  loc,      \* local variables of the orchestrator
  calls,    \* remote calls issued by this invocation, in order
  outcome,  \* what the invocation surfaces to its caller
  registered, \* the tool groups registered with the server so far, in order
  token,    \* the configured credential (TODOIST_API_TOKEN, "" when unset)
  other,    \* a second invocation of the same event loop, suspended at an await
  flight    \* the job the running invocation last handed to the executor

vars == <<pc, tool, args, loc, calls, outcome, registered, token, other, flight>>

\* what no step of an invocation changes
env == <<registered, token, other, flight>>

NoArgs ==
  [task_id |-> Absent, project_id |-> Absent, project_name |-> Absent,
   label_id |-> Absent, label_name |-> Absent,
   parent_id |-> Absent, parent_name |-> Absent,
   name |-> Absent, content |-> Absent,
   filter_string |-> Absent, due_today |-> FALSE, due_upcoming |-> FALSE,
   priority |-> NoInt, limit |-> NoInt, extra |-> FALSE, favorite |-> NoBool,
   completed |-> NoBool]

NoRec == [id |-> Absent, name |-> Absent, parent_id |-> Absent]
NoLoc ==
  [id |-> Absent, project_id |-> Absent, label_id |-> Absent,
   shown |-> Absent, rec |-> NoRec]
NoOutcome ==
  [kind |-> "none", msg |-> <<>>, details |-> Absent, recs |-> <<>>, shown |-> Absent]
NoPayload == [none |-> TRUE]

\* one remote call: the facade method, the statement of the orchestrator that
\* awaits it (role), the identifier and payload passed, and the result
Call(op, role, id, pl, res) == [op |-> op, role |-> role, id |-> id, pl |-> pl, res |-> res]

\* the exception e leaves the invocation and reaches the caller
Surface(e) ==
  /\ outcome' = [kind |-> e.kind, msg |-> e.msg, details |-> e.details,
                 recs |-> <<>>, shown |-> Absent]
  /\ pc' = "done"
  /\ UNCHANGED env

\* the orchestrator ends by raising, or by letting the error of a facade
\* method through, while its coroutine is awaited
Raise(kind, msg) == Surface(handle_exceptions(tool, Exc(kind, msg, Absent), FALSE))

\* the orchestrator ends by returning its text, rendered from recs and shown
Return(recs, shown) ==
  /\ outcome' = [kind |-> "ok", msg |-> <<>>, details |-> Absent,
                 recs |-> recs, shown |-> shown]
  /\ pc' = "done"
  /\ UNCHANGED env

Issue(op, role, id, pl, res) == calls' = Append(calls, Call(op, role, id, pl, res))

\* the frame of an invocation: everything it holds is local to its coroutine
Invocation(p, t, a, l, c, o) ==
  [pc |-> p, tool |-> t, args |-> a, loc |-> l, calls |-> c, outcome |-> o]
NoInvocation == Invocation("idle", "none", NoArgs, NoLoc, <<>>, NoOutcome)

\* a job of the executor: the call of the invocation it serves (n), the
\* await that submitted it (at) and how far the worker thread has got
Job(n, at, state) == [n |-> n, at |-> at, state |-> state]
NoJob == Job(0, "idle", "none")

Init ==
  /\ pc = "idle"
  /\ tool = "none"
  /\ args = NoArgs
  /\ loc = NoLoc
  /\ calls = <<>>
  /\ outcome = NoOutcome
  /\ registered = <<>>
  /\ token \in {"", "secret"}
  /\ other = NoInvocation
  /\ flight = NoJob

(***************************************************************************)
(* Pure helpers of the orchestrators.                                      *)
(***************************************************************************)
\* the lookup loop: the first entity whose name matches case-insensitively
\* overwrites the identifier, which otherwise keeps the value it had
Lookup(cur, coll, name) ==
  LET hits == {i \in DOMAIN coll : Lower(coll[i].name) = Lower(name)}
  IN  IF hits = {} THEN cur ELSE coll[SetMin(hits)].id

\* (mutation of NeedsLookup: a resolution made by another invocation is
\* remembered by the module, and no list call is made while it is)
NeedsLookup_Shared(id, name) == Truthy(name) /\ ~Truthy(id) /\ other.calls = <<>>

\* (mutation of NeedsLookup: the identifier is not looked at)
NeedsLookup_NameOnly(id, name) == Truthy(name)

\* `if name and not identifier`: the condition guarding every lookup
NeedsLookup(id, name) == Truthy(name) /\ ~Truthy(id)

\* Field(None, ge=1, le=100) of TaskFilterMCPInput.limit
LimitFieldOk(limit) == limit = NoInt \/ (limit[1] >= LimitMin /\ limit[1] <= LimitMax)

\* (mutation of ComposeToday: the clause is put before the accumulator)
ComposeToday_Prepend(fs, due_today) ==
  IF due_today
    THEN IF Truthy(fs) THEN "today & (" \o fs \o ")" ELSE "today"
    ELSE fs

\* the three clauses of the filter composition of list-tasks
ComposeToday(fs, due_today) ==
  IF due_today
    THEN IF Truthy(fs) THEN "(" \o fs \o ") & today" ELSE "today"
    ELSE fs

ComposeUpcoming(fs, due_upcoming) ==
  IF due_upcoming
    THEN IF Truthy(fs) THEN "(" \o fs \o ") & (today | overdue | 7 days)"
                       ELSE "today | overdue | 7 days"
    ELSE fs

\* (mutation of ComposePriority: the accumulator is not parenthesized)
ComposePriority_Bare(fs, priority) ==
  IF TruthyInt(priority)
    THEN IF Truthy(fs) THEN fs \o " & " \o "p" \o ToString(priority[1])
                       ELSE "p" \o ToString(priority[1])
    ELSE fs

ComposePriority(fs, priority) ==
  IF TruthyInt(priority)
    THEN IF Truthy(fs) THEN "(" \o fs \o ") & " \o "p" \o ToString(priority[1])
                       ELSE "p" \o ToString(priority[1])
    ELSE fs

\* (mutation of Compose: the `completed` argument adds a clause of its own)
Compose_Completed(base, due_today, due_upcoming, priority) ==
  LET fs == ComposePriority(ComposeUpcoming(ComposeToday(base, due_today), due_upcoming),
                            priority)
  IN  IF args.completed = <<TRUE>>
        THEN IF Truthy(fs) THEN "(" \o fs \o ") & completed" ELSE "completed"
        ELSE fs

Compose(base, due_today, due_upcoming, priority) ==
  ComposePriority(ComposeUpcoming(ComposeToday(base, due_today), due_upcoming), priority)

\* list-tasks: `if limit and len(tasks) > limit: tasks = tasks[:limit]`
TruncateTasks(tasks, limit) ==
  IF TruthyInt(limit) /\ Len(tasks) > limit[1] THEN SubSeq(tasks, 1, limit[1]) ELSE tasks

\* (mutation of TruncateListing: the slice is one record too long)
TruncateListing_OneMore(items, limit) ==
  IF limit # NoInt /\ limit[1] > 0
    THEN SubSeq(items, 1, IF limit[1] + 1 < Len(items) THEN limit[1] + 1 ELSE Len(items))
    ELSE items

\* list-projects, list-labels: `if isinstance(limit, int) and limit > 0: x = x[:limit]`
TruncateListing(items, limit) ==
  IF limit # NoInt /\ limit[1] > 0
    THEN SubSeq(items, 1, IF limit[1] < Len(items) THEN limit[1] ELSE Len(items))
    ELSE items

\* sorted() and list.sort(): a stable sort of items by their keys
StableSort(items, keys) ==
  LET n == Len(items)
      Rank(i) == 1 + Cardinality({j \in 1..n : \/ keys[j] < keys[i]
                                               \/ keys[j] = keys[i] /\ j < i})
  IN  [k \in 1..n |-> items[CHOOSE i \in 1..n : Rank(i) = k]]

\* `p.order if p.order is not None else 999`
ProjectOrderKey(p) == IF p.order # NoInt THEN p.order[1] ELSE OrderDefault
\* `getattr(l, 'order', 999) or 999`
LabelOrderKey(l) == IF TruthyInt(l.order) THEN l.order[1] ELSE OrderDefault

SortProjects(ps) == StableSort(ps, [i \in DOMAIN ps |-> ProjectOrderKey(ps[i])])

\* root_projects and child_projects[parent_id], sorted; identifiers are
\* distinct, so project_map holds the kept records in their order
IsRoot(p) == ~Truthy(p.parent_id)

\* (mutation of root_projects: the `else` is lost and every project is also
\* appended to the roots)
root_projects_All(projects) == SortProjects(projects)

root_projects(projects) == SortProjects(SelectSeq(projects, IsRoot))
child_projects(projects, parent_id) ==
  SortProjects(SelectSeq(projects, LAMBDA p : ~IsRoot(p) /\ p.parent_id = parent_id))

\* what stands for the rest of a rendering that does not end: the recursion
\* is deeper than there are projects, so a project is its own ancestor
Diverges == Listed("<diverges>", Absent, Absent, NoInt)

\* format_project(project, level): the project, then its children, each with
\* its own, one level deeper
RECURSIVE format_project(_, _, _)
RECURSIVE format_projects(_, _, _)
format_project(project, projects, level) ==
  IF level > Len(projects)
    THEN <<Diverges>>
    ELSE <<project>>
         \o format_projects(child_projects(projects, project.id), projects, level + 1)
format_projects(siblings, projects, level) ==
  IF siblings = <<>>
    THEN <<>>
    ELSE format_project(Head(siblings), projects, level)
         \o format_projects(Tail(siblings), projects, level)

\* the records the text of list-projects shows, in the order it shows them
formatted_projects(projects) == format_projects(root_projects(projects), projects, 0)
\* the records the text of list-labels shows, in the order it shows them
formatted_labels(labels) ==
  StableSort(labels, [i \in DOMAIN labels |-> LabelOrderKey(labels[i])])

\* (mutation of ResponseRecord: the record read before the update is rendered)
ResponseRecord_Original(original, updated) == original

\* the record the update orchestrators render: the one fetched after the update
ResponseRecord(original, updated) == updated

\* (mutation of CreatedRecord: the request is echoed)
CreatedRecord_Echo(requested, created) == requested

\* the record the create orchestrators render: the one the create call returned
CreatedRecord(requested, created) == created

(***************************************************************************)
(* Arguments the model invokes each tool with.                             *)
(***************************************************************************)
IdArgs == {Absent, "", "9"}
NameArgs == {Absent, ""} \cup GivenNames
LimitArgs == {NoInt, <<0>>, <<1>>, <<2>>, <<LimitMax>>, <<LimitMax + 1>>}

ListTasksArgs ==
  {[NoArgs EXCEPT !.project_id = pi, !.project_name = pn, !.label_id = li, !.label_name = ln] :
     pi \in IdArgs, pn \in NameArgs \ {""}, li \in {Absent, "9"}, ln \in NameArgs \ {""}}
  \cup
  {[NoArgs EXCEPT !.filter_string = fs, !.due_today = dt, !.due_upcoming = du, !.priority = p] :
     fs \in {Absent, "", "@work"}, dt \in BOOLEAN, du \in BOOLEAN,
     p \in {NoInt, <<0>>, <<3>>, <<5>>}}
  \cup
  {[NoArgs EXCEPT !.limit = l] : l \in LimitArgs}
  \cup
  {[NoArgs EXCEPT !.project_name = "home", !.completed = <<c>>] : c \in BOOLEAN}

CreateTaskArgs ==
  {[NoArgs EXCEPT !.content = c, !.project_id = pi, !.project_name = pn] :
     c \in {Absent, "Buy milk"}, pi \in IdArgs, pn \in NameArgs}
  \cup
  {[NoArgs EXCEPT !.content = "Buy milk", !.priority = p] : p \in {<<0>>, <<3>>, <<5>>}}

UpdateTaskArgs ==
  {[NoArgs EXCEPT !.task_id = t, !.project_id = pi, !.project_name = pn] :
     t \in {Absent, "", "t1"}, pi \in IdArgs, pn \in NameArgs}
  \cup
  {[NoArgs EXCEPT !.task_id = "t1", !.extra = TRUE]}
  \cup
  {[NoArgs EXCEPT !.task_id = "t1", !.priority = p] : p \in {<<2>>, <<7>>}}

TaskIdArgs == {[NoArgs EXCEPT !.task_id = t] : t \in {Absent, "", "t1"}}

ListingArgs == {[NoArgs EXCEPT !.limit = l] : l \in LimitArgs}

CreateProjectArgs ==
  {[NoArgs EXCEPT !.name = n, !.parent_id = pi, !.parent_name = pn] :
     n \in {Absent, "Garden"}, pi \in IdArgs, pn \in NameArgs}
  \cup
  {[NoArgs EXCEPT !.name = "Garden", !.favorite = <<f>>] : f \in BOOLEAN}

ProjectRefArgs ==
  {[NoArgs EXCEPT !.project_id = pi, !.project_name = pn] : pi \in IdArgs, pn \in NameArgs}

CreateLabelArgs ==
  {[NoArgs EXCEPT !.name = n] : n \in {Absent, "urgent"}}
  \cup
  {[NoArgs EXCEPT !.name = "urgent", !.favorite = <<f>>] : f \in BOOLEAN}

LabelRefArgs ==
  {[NoArgs EXCEPT !.label_id = li, !.label_name = ln] : li \in IdArgs, ln \in NameArgs}

TaskTools == {"list-tasks", "create-task", "update-task", "complete-task", "delete-task"}
ProjectTools == {"list-projects", "create-project", "update-project", "delete-project"}
LabelTools == {"list-labels", "create-label", "update-label", "delete-label"}
Tools == TaskTools \cup ProjectTools \cup LabelTools

ArgsOf(t) ==
  CASE t = "list-tasks" -> ListTasksArgs
    [] t = "create-task" -> CreateTaskArgs
    [] t = "update-task" -> UpdateTaskArgs
    [] t \in {"complete-task", "delete-task"} -> TaskIdArgs
    [] t \in {"list-projects", "list-labels"} -> ListingArgs
    [] t = "create-project" -> CreateProjectArgs
    [] t \in {"update-project", "delete-project"} -> ProjectRefArgs
    [] t = "create-label" -> CreateLabelArgs
    [] t \in {"update-label", "delete-label"} -> LabelRefArgs

\* records the remote service may hold under an identifier
RecordsOf(id) ==
  {Entity(id, n, p) : n \in EntityNames, p \in {Absent}}
\* projects may have a parent
ProjectsOf(id) ==
  {Entity(id, n, p) : n \in EntityNames, p \in {Absent, "5"}}
\* records the remote service may answer a create call with
CreatedRecords(parent) ==
  {Entity("10", n, parent) : n \in EntityNames}

(***************************************************************************)
(* The dispatcher.                                                         *)
(***************************************************************************)
\* The three register_*_tools functions decorate their handle_list_tools with
\* `@server.list_tools()` and their handle_call_tool with `@server.call_tool()`
\* on the one Server object.  The server keeps one handler per request type:
\* a registration replaces the handler registered before it, so requests are
\* served by the handlers of the group registered last.
Groups == <<"tasks", "projects", "labels">>

GroupTools(g) ==
  CASE g = "tasks" -> TaskTools
    [] g = "projects" -> ProjectTools
    [] g = "labels" -> LabelTools

\* the group whose handlers the server holds
Handler == registered[Len(registered)]

\* what the registered handle_list_tools answers
ListedTools == IF registered = <<>> THEN {} ELSE GroupTools(Handler)

\* register_tools calls the three functions in the order of Groups
Register(g) ==
  /\ pc = "idle"
  /\ Len(registered) < Len(Groups)
  /\ Groups[Len(registered) + 1] = g
  /\ registered' = Append(registered, g)
  /\ UNCHANGED <<pc, tool, args, loc, calls, outcome, token, other, flight>>

register_task_tools == Register("tasks")
register_project_tools == Register("projects")
register_label_tools == Register("labels")

\* the names a host may call: the thirteen tools and a name no group knows
ToolNames == Tools \cup {"no-such-tool"}
CallArgs(t) == IF t \in Tools THEN ArgsOf(t) ELSE {NoArgs}

\* handle_call_tool of the group registered last: the facade is constructed,
\* then the name is matched against the tools of the group and the
\* orchestrator is entered, or `raise ValueError(f"Unknown tool: {name}")`.
\* The dispatcher is not decorated: what it raises reaches the host as it is.
\* The server hands the dispatcher a mapping, empty when the request carries
\* no arguments, so the `arguments is None` branches are not taken.
call_tool(t, a) ==
  /\ tool' = t
  /\ args' = a
  /\ LET client == TodoistClient(Absent, token)
     IN  IF client.kind # "ok"
           THEN Surface(client)
           ELSE IF t \in GroupTools(Handler)
             THEN pc' = "entry" /\ outcome' = NoOutcome /\ UNCHANGED env
             ELSE Surface(Exc("ValueError", <<"Unknown tool:", t>>, Absent))
  /\ loc' = NoLoc
  /\ calls' = <<>>

handle_call_tool ==
  /\ pc = "idle"
  /\ registered # <<>>
  /\ \E t \in ToolNames : \E a \in CallArgs(t) : call_tool(t, a)

\* the result has been handed to the host; nothing of the invocation is kept
Deliver ==
  /\ pc = "done"
  /\ pc' = "idle"
  /\ tool' = "none"
  /\ args' = NoArgs
  /\ loc' = NoLoc
  /\ calls' = <<>>
  /\ outcome' = NoOutcome
  /\ UNCHANGED env

\* the orchestrator goes on to its next await
Goto(label) ==
  /\ pc' = label
  /\ outcome' = outcome
  /\ UNCHANGED env

\* the list call of a lookup failed, or the lookup loop left no identifier:
\* `if not identifier: raise ValidationError(...)`
LookupFailed(r, cur, name) == r.kind # "ok" \/ ~Truthy(Lookup(cur, r.val, name))

\* the lookup ends the invocation: the error of the list call, or not found
LookupRaise(op, r, prefix, name) ==
  /\ Issue(op, "lookup", Absent, NoPayload, r)
  /\ IF r.kind # "ok" THEN Raise(r.kind, r.msg) ELSE Raise("ValidationError", <<prefix, name>>)
  /\ UNCHANGED <<loc, args>>

\* the lookup found the identifier the orchestrator goes on with
LookupFound(op, r) == Issue(op, "lookup", Absent, NoPayload, r)

(***************************************************************************)
(* tools/tasks.py                                                          *)
(***************************************************************************)
ListTasksAfterProject(l) ==
  IF NeedsLookup(l.label_id, args.label_name) THEN "get_labels" ELSE "get_tasks"

\* parse the arguments, copy the identifiers, decide the first await
handle_list_tasks_entry ==
  /\ tool = "list-tasks" /\ pc = "entry"
  /\ UNCHANGED <<tool, args, calls>>
  /\ IF ~LimitFieldOk(args.limit)
       THEN Raise("PydanticValidationError", <<"limit">>) /\ UNCHANGED loc
       ELSE LET l == [loc EXCEPT !.project_id = args.project_id, !.label_id = args.label_id]
            IN  /\ loc' = l
                /\ Goto(IF NeedsLookup(l.project_id, args.project_name)
                          THEN "get_projects" ELSE ListTasksAfterProject(l))

ListTasksProjectFound(id) ==
  LET l == [loc EXCEPT !.project_id = id]
  IN  loc' = l /\ args' = args /\ Goto(ListTasksAfterProject(l))

handle_list_tasks_projects ==
  /\ tool = "list-tasks" /\ pc = "get_projects"
  /\ UNCHANGED tool
  /\ \E r \in Returns("get projects", Collections) :
       IF LookupFailed(r, loc.project_id, args.project_name)
         THEN LookupRaise("get_projects", r, "Project not found:", args.project_name)
         ELSE /\ LookupFound("get_projects", r)
              /\ ListTasksProjectFound(Lookup(loc.project_id, r.val, args.project_name))

ListTasksLabelFound(id) ==
  loc' = [loc EXCEPT !.label_id = id] /\ args' = args /\ Goto("get_tasks")

handle_list_tasks_labels ==
  /\ tool = "list-tasks" /\ pc = "get_labels"
  /\ UNCHANGED tool
  /\ \E r \in Returns("get labels", Collections) :
       IF LookupFailed(r, loc.label_id, args.label_name)
         THEN LookupRaise("get_labels", r, "Label not found:", args.label_name)
         ELSE /\ LookupFound("get_labels", r)
              /\ ListTasksLabelFound(Lookup(loc.label_id, r.val, args.label_name))

handle_list_tasks_tasks ==
  /\ tool = "list-tasks" /\ pc = "get_tasks"
  /\ UNCHANGED <<tool, args, loc>>
  /\ LET pl == [project_id |-> loc.project_id, label_id |-> loc.label_id,
                filter_string |-> Compose(args.filter_string, args.due_today,
                                          args.due_upcoming, args.priority)]
     IN  \E r \in Returns("get tasks", Listings) :
           /\ Issue("get_tasks", "list", Absent, pl, r)
           /\ IF r.kind # "ok"
                THEN Raise(r.kind, r.msg)
                ELSE Return(TruncateTasks(r.val, args.limit), Absent)

\* Field(None, ge=1, le=4) of TaskMCPInput.priority
PriorityFieldOk(priority) == priority = NoInt \/ (priority[1] >= 1 /\ priority[1] <= 4)

\* TaskMCPInput(**arguments), then the first await
handle_create_task_entry ==
  /\ tool = "create-task" /\ pc = "entry"
  /\ UNCHANGED <<tool, args, calls>>
  /\ IF args.content = Absent \/ ~PriorityFieldOk(args.priority)
       THEN Raise("PydanticValidationError", <<"content or priority">>) /\ UNCHANGED loc
       ELSE /\ loc' = [loc EXCEPT !.project_id = args.project_id]
            /\ Goto(IF NeedsLookup(args.project_id, args.project_name)
                      THEN "get_projects" ELSE "create")

CreateTaskProjectFound(id) ==
  loc' = [loc EXCEPT !.project_id = id] /\ args' = args /\ Goto("create")

handle_create_task_projects ==
  /\ tool = "create-task" /\ pc = "get_projects"
  /\ UNCHANGED tool
  /\ \E r \in Returns("get projects", Collections) :
       IF LookupFailed(r, loc.project_id, args.project_name)
         THEN LookupRaise("get_projects", r, "Project not found:", args.project_name)
         ELSE /\ LookupFound("get_projects", r)
              /\ CreateTaskProjectFound(Lookup(loc.project_id, r.val, args.project_name))

handle_create_task_create ==
  /\ tool = "create-task" /\ pc = "create"
  /\ UNCHANGED <<tool, args, loc>>
  /\ LET pl == [content |-> args.content, project_id |-> loc.project_id,
                priority |-> args.priority]
     IN  \E r \in Returns("create task", CreatedRecords(Absent)) :
           /\ Issue("create_task", "mutation", Absent, pl, r)
           /\ IF r.kind # "ok"
                THEN Raise(r.kind, r.msg)
                ELSE Return(<<CreatedRecord(Entity(Absent, args.content, Absent), r.val)>>,
                            Absent)

\* `task_id = arguments.pop("task_id")` and the check of it
handle_update_task_entry ==
  /\ tool = "update-task" /\ pc = "entry"
  /\ UNCHANGED <<tool, args, calls>>
  /\ IF args.task_id = Absent
       THEN Raise("KeyError", <<"task_id">>) /\ UNCHANGED loc
       ELSE IF ~Truthy(args.task_id)
         THEN Raise("ValidationError", <<"Task ID is required">>) /\ UNCHANGED loc
         ELSE loc' = [loc EXCEPT !.id = args.task_id] /\ Goto("get_original")

\* `original_task = await client.get_task(task_id)`
handle_update_task_original ==
  /\ tool = "update-task" /\ pc = "get_original"
  /\ UNCHANGED <<tool, args>>
  /\ \E r \in Returns("get task", RecordsOf(loc.id)) :
       /\ Issue("get_task", "original", loc.id, NoPayload, r)
       /\ IF r.kind # "ok"
            THEN Raise(r.kind, r.msg) /\ UNCHANGED loc
            ELSE /\ loc' = [loc EXCEPT !.rec = r.val, !.project_id = args.project_id]
                 /\ Goto(IF NeedsLookup(args.project_id, args.project_name)
                           THEN "get_projects" ELSE "update")

\* the lookup writes arguments["project_id"] (loc.project_id, where Absent
\* says the key is not in the mapping), and the not-found check is
\* `if not "project_id" in arguments`
handle_update_task_projects ==
  /\ tool = "update-task" /\ pc = "get_projects"
  /\ UNCHANGED <<tool, args>>
  /\ \E r \in Returns("get projects", Collections) :
       /\ Issue("get_projects", "lookup", Absent, NoPayload, r)
       /\ IF r.kind # "ok"
            THEN Raise(r.kind, r.msg) /\ UNCHANGED loc
            ELSE LET id == Lookup(loc.project_id, r.val, args.project_name)
                 IN  IF id = Absent
                       THEN /\ Raise("ValidationError",
                                     <<"Project not found:", args.project_name>>)
                            /\ UNCHANGED loc
                       ELSE /\ loc' = [loc EXCEPT !.project_id = id]
                            /\ Goto("update")

\* `success = await client.update_task(task_id=task_id, **arguments)`
handle_update_task_update ==
  /\ tool = "update-task" /\ pc = "update"
  /\ UNCHANGED <<tool, args, loc>>
  /\ IF args.extra
       THEN \* `client.update_task(task_id=task_id, **arguments)` with a key the
            \* method has no parameter for: binding fails inside the wrapper
            /\ Surface(handle_exceptions("update_task",
                         Exc("TypeError", <<"update_task()", "got an unexpected keyword argument">>,
                             Absent), TRUE))
            /\ UNCHANGED calls
       ELSE \E r \in Returns("update task", BOOLEAN) :
              /\ Issue("update_task", "mutation", loc.id,
                       [project_id |-> loc.project_id, priority |-> args.priority], r)
              /\ IF r.kind # "ok"
                   THEN Raise(r.kind, r.msg)
                   ELSE IF ~r.val
                     THEN Raise("TodoistError", <<"Failed to update task">>)
                     ELSE Goto("refetch")

\* `updated_task = await client.get_task(task_id)` and the response
handle_update_task_refetch ==
  /\ tool = "update-task" /\ pc = "refetch"
  /\ UNCHANGED <<tool, args, loc>>
  /\ \E r \in Returns("get task", RecordsOf(loc.id)) :
       /\ Issue("get_task", "refetch", loc.id, NoPayload, r)
       /\ IF r.kind # "ok"
            THEN Raise(r.kind, r.msg)
            ELSE Return(<<ResponseRecord(loc.rec, r.val)>>, Absent)

\* `task_id = arguments.get("task_id")` and the check of it
TaskIdEntry ==
  /\ UNCHANGED <<tool, args, calls>>
  /\ IF ~Truthy(args.task_id)
       THEN Raise("ValidationError", <<"Task ID is required">>) /\ UNCHANGED loc
       ELSE loc' = [loc EXCEPT !.id = args.task_id] /\ Goto("get_original")

\* the get inside try/except Exception: any failure leaves a placeholder name
BestEffortName(op, what, id, records, fallback, next) ==
  \E r \in Returns(what, records) :
    /\ Issue(op, "name", id, NoPayload, r)
    /\ loc' = [loc EXCEPT !.shown = IF r.kind = "ok" THEN r.val.name ELSE fallback]
    /\ Goto(next)

\* a call answering with a success flag: a falsy flag becomes TodoistError
FlagAwait(op, what, id, failed, shown) ==
  \E r \in Returns(what, BOOLEAN) :
    /\ Issue(op, "mutation", id, NoPayload, r)
    /\ IF r.kind # "ok"
         THEN Raise(r.kind, r.msg)
         ELSE IF ~r.val
           THEN Raise("TodoistError", <<failed>>)
           ELSE Return(<<>>, shown)

handle_complete_task_entry ==
  /\ tool = "complete-task" /\ pc = "entry"
  /\ TaskIdEntry

handle_complete_task_original ==
  /\ tool = "complete-task" /\ pc = "get_original"
  /\ UNCHANGED <<tool, args>>
  /\ BestEffortName("get_task", "get task", loc.id, RecordsOf(loc.id), "the task", "close")

handle_complete_task_close ==
  /\ tool = "complete-task" /\ pc = "close"
  /\ UNCHANGED <<tool, args, loc>>
  /\ FlagAwait("close_task", "close task", loc.id, "Failed to complete task", loc.shown)

handle_delete_task_entry ==
  /\ tool = "delete-task" /\ pc = "entry"
  /\ TaskIdEntry

handle_delete_task_original ==
  /\ tool = "delete-task" /\ pc = "get_original"
  /\ UNCHANGED <<tool, args>>
  /\ BestEffortName("get_task", "get task", loc.id, RecordsOf(loc.id), "the task", "delete")

handle_delete_task_delete ==
  /\ tool = "delete-task" /\ pc = "delete"
  /\ UNCHANGED <<tool, args, loc>>
  /\ FlagAwait("delete_task", "delete task", loc.id, "Failed to delete task", loc.shown)

(***************************************************************************)
(* tools/projects.py                                                       *)
(***************************************************************************)
\* one await, then the truncation, the project tree and the text
handle_list_projects ==
  /\ tool = "list-projects" /\ pc = "entry"
  /\ UNCHANGED <<tool, args, loc>>
  /\ \E r \in Returns("get projects", ProjectListings) :
       /\ Issue("get_projects", "list", Absent, NoPayload, r)
       /\ IF r.kind # "ok"
            THEN Raise(r.kind, r.msg)
            ELSE Return(formatted_projects(TruncateListing(r.val, args.limit)), Absent)

\* `ProjectMCPInput(name=arguments["name"], ...)`, which follows the lookup
CreateProjectParse(l) ==
  IF args.name = Absent
    THEN Raise("KeyError", <<"name">>) /\ UNCHANGED loc
    ELSE loc' = l /\ Goto("create")

handle_create_project_entry ==
  /\ tool = "create-project" /\ pc = "entry"
  /\ UNCHANGED <<tool, args, calls>>
  /\ LET l == [loc EXCEPT !.project_id = args.parent_id]
     IN  IF NeedsLookup(args.parent_id, args.parent_name)
           THEN loc' = l /\ Goto("get_projects")
           ELSE CreateProjectParse(l)

CreateProjectParentFound(id) ==
  args' = args /\ CreateProjectParse([loc EXCEPT !.project_id = id])

handle_create_project_projects ==
  /\ tool = "create-project" /\ pc = "get_projects"
  /\ UNCHANGED tool
  /\ \E r \in Returns("get projects", Collections) :
       IF LookupFailed(r, loc.project_id, args.parent_name)
         THEN LookupRaise("get_projects", r, "Parent project not found:", args.parent_name)
         ELSE /\ LookupFound("get_projects", r)
              /\ CreateProjectParentFound(Lookup(loc.project_id, r.val, args.parent_name))

handle_create_project_create ==
  /\ tool = "create-project" /\ pc = "create"
  /\ UNCHANGED <<tool, args>>
  /\ LET pl == [name |-> args.name, parent_id |-> loc.project_id,
                favorite |-> GetOr(args.favorite, FALSE)]
     IN  \E r \in Returns("create project", CreatedRecords(loc.project_id)) :
           /\ Issue("create_project", "mutation", Absent, pl, r)
           /\ IF r.kind # "ok"
                THEN Raise(r.kind, r.msg) /\ UNCHANGED loc
                ELSE LET rec == CreatedRecord(Entity(Absent, args.name, loc.project_id), r.val)
                     IN  IF Truthy(loc.project_id)
                           THEN loc' = [loc EXCEPT !.rec = rec] /\ Goto("get_parent")
                           ELSE Return(<<rec>>, Absent) /\ UNCHANGED loc

\* the get of the parent inside try/except: its name, or else its identifier
ParentAwait(parent) ==
  \E r \in Returns("get project", ProjectsOf(parent)) :
    /\ Issue("get_project", "parent", parent, NoPayload, r)
    /\ Return(<<loc.rec>>, IF r.kind = "ok" THEN r.val.name ELSE parent)

handle_create_project_parent ==
  /\ tool = "create-project" /\ pc = "get_parent"
  /\ UNCHANGED <<tool, args, loc>>
  /\ ParentAwait(loc.project_id)

\* the identifier, the name, and the check that one of them is given
RefEntry(id, name, required, next) ==
  /\ UNCHANGED <<tool, args, calls>>
  /\ IF ~Truthy(id) /\ ~Truthy(name)
       THEN Raise("ValidationError", <<required>>) /\ UNCHANGED loc
       ELSE /\ loc' = [loc EXCEPT !.id = id]
            /\ Goto(IF NeedsLookup(id, name) THEN "lookup" ELSE next)

handle_update_project_entry ==
  /\ tool = "update-project" /\ pc = "entry"
  /\ RefEntry(args.project_id, args.project_name,
              "Either project_id or project_name is required", "get_original")

\* (mutation of UpdateRefFound: the update is issued without the get before it)
UpdateRefFound_SkipOriginal(id) ==
  loc' = [loc EXCEPT !.id = id] /\ args' = args /\ Goto("update")

\* the lookup found the entity: `original = await client.get_...(id)` is next
UpdateRefFound(id) ==
  loc' = [loc EXCEPT !.id = id] /\ args' = args /\ Goto("get_original")

handle_update_project_projects ==
  /\ tool = "update-project" /\ pc = "lookup"
  /\ UNCHANGED tool
  /\ \E r \in Returns("get projects", Collections) :
       IF LookupFailed(r, loc.id, args.project_name)
         THEN LookupRaise("get_projects", r, "Project not found:", args.project_name)
         ELSE /\ LookupFound("get_projects", r)
              /\ UpdateRefFound(Lookup(loc.id, r.val, args.project_name))

\* (mutation of OriginalAwait: a failed get is swallowed and the update goes on)
OriginalAwait_Swallow(op, what, records) ==
  \E r \in Returns(what, records) :
    /\ Issue(op, "original", loc.id, NoPayload, r)
    /\ loc' = [loc EXCEPT !.rec = IF r.kind # "ok" THEN NoRec ELSE r.val]
    /\ Goto("update")

\* the get of the original record: its failure ends the invocation
OriginalAwait(op, what, records) ==
  \E r \in Returns(what, records) :
    /\ Issue(op, "original", loc.id, NoPayload, r)
    /\ IF r.kind # "ok"
         THEN Raise(r.kind, r.msg) /\ UNCHANGED loc
         ELSE loc' = [loc EXCEPT !.rec = r.val] /\ Goto("update")

handle_update_project_original ==
  /\ tool = "update-project" /\ pc = "get_original"
  /\ UNCHANGED <<tool, args>>
  /\ OriginalAwait("get_project", "get project", ProjectsOf(loc.id))

\* (mutation of UpdateAwait: the flag the update call returns is not tested)
UpdateAwait_Ignoring(op, what, failed) ==
  \E r \in Returns(what, BOOLEAN) :
    /\ Issue(op, "mutation", loc.id, [name |-> args.name], r)
    /\ IF r.kind # "ok"
         THEN Raise(r.kind, r.msg)
         ELSE Goto("refetch")

\* the update call: a falsy flag becomes TodoistError
UpdateAwait(op, what, failed) ==
  \E r \in Returns(what, BOOLEAN) :
    /\ Issue(op, "mutation", loc.id, [name |-> args.name], r)
    /\ IF r.kind # "ok"
         THEN Raise(r.kind, r.msg)
         ELSE IF ~r.val
           THEN Raise("TodoistError", <<failed>>)
           ELSE Goto("refetch")

handle_update_project_update ==
  /\ tool = "update-project" /\ pc = "update"
  /\ UNCHANGED <<tool, args, loc>>
  /\ UpdateAwait("update_project", "update project", "Failed to update project")

handle_update_project_refetch ==
  /\ tool = "update-project" /\ pc = "refetch"
  /\ UNCHANGED <<tool, args>>
  /\ \E r \in Returns("get project", ProjectsOf(loc.id)) :
       /\ Issue("get_project", "refetch", loc.id, NoPayload, r)
       /\ IF r.kind # "ok"
            THEN Raise(r.kind, r.msg) /\ UNCHANGED loc
            ELSE LET rec == ResponseRecord(loc.rec, r.val)
                 IN  IF Truthy(rec.parent_id)
                       THEN loc' = [loc EXCEPT !.rec = rec] /\ Goto("get_parent")
                       ELSE Return(<<rec>>, Absent) /\ UNCHANGED loc

handle_update_project_parent ==
  /\ tool = "update-project" /\ pc = "get_parent"
  /\ UNCHANGED <<tool, args, loc>>
  /\ ParentAwait(loc.rec.parent_id)

handle_delete_project_entry ==
  /\ tool = "delete-project" /\ pc = "entry"
  /\ RefEntry(args.project_id, args.project_name,
              "Either project_id or project_name is required", "get_original")

handle_delete_project_projects ==
  /\ tool = "delete-project" /\ pc = "lookup"
  /\ UNCHANGED tool
  /\ \E r \in Returns("get projects", Collections) :
       IF LookupFailed(r, loc.id, args.project_name)
         THEN LookupRaise("get_projects", r, "Project not found:", args.project_name)
         ELSE /\ LookupFound("get_projects", r)
              /\ UpdateRefFound(Lookup(loc.id, r.val, args.project_name))

\* (mutation of NameOr: the supplied name is forgotten)
NameOr_Placeholder(name, placeholder) == placeholder

\* `name = name or "the project"`
NameOr(name, placeholder) == IF Truthy(name) THEN name ELSE placeholder

handle_delete_project_original ==
  /\ tool = "delete-project" /\ pc = "get_original"
  /\ UNCHANGED <<tool, args>>
  /\ BestEffortName("get_project", "get project", loc.id, ProjectsOf(loc.id),
                    NameOr(args.project_name, "the project"), "delete")

handle_delete_project_delete ==
  /\ tool = "delete-project" /\ pc = "delete"
  /\ UNCHANGED <<tool, args, loc>>
  /\ FlagAwait("delete_project", "delete project", loc.id, "Failed to delete project",
               loc.shown)

(***************************************************************************)
(* tools/labels.py                                                         *)
(***************************************************************************)
\* one await, then the truncation, the sort and the text
handle_list_labels ==
  /\ tool = "list-labels" /\ pc = "entry"
  /\ UNCHANGED <<tool, args, loc>>
  /\ \E r \in Returns("get labels", LabelListings) :
       /\ Issue("get_labels", "list", Absent, NoPayload, r)
       /\ IF r.kind # "ok"
            THEN Raise(r.kind, r.msg)
            ELSE Return(formatted_labels(TruncateListing(r.val, args.limit)), Absent)

\* `LabelMCPInput(name=arguments["name"], ...)`
handle_create_label_entry ==
  /\ tool = "create-label" /\ pc = "entry"
  /\ UNCHANGED <<tool, args, calls, loc>>
  /\ IF args.name = Absent
       THEN Raise("KeyError", <<"name">>)
       ELSE Goto("create")

handle_create_label_create ==
  /\ tool = "create-label" /\ pc = "create"
  /\ UNCHANGED <<tool, args, loc>>
  /\ \E r \in Returns("create label", CreatedRecords(Absent)) :
       /\ Issue("create_label", "mutation", Absent,
                [name |-> args.name, favorite |-> GetOr(args.favorite, FALSE)], r)
       /\ IF r.kind # "ok"
            THEN Raise(r.kind, r.msg)
            ELSE Return(<<CreatedRecord(Entity(Absent, args.name, Absent), r.val)>>, Absent)

handle_update_label_entry ==
  /\ tool = "update-label" /\ pc = "entry"
  /\ RefEntry(args.label_id, args.label_name,
              "Either label_id or label_name is required", "get_original")

handle_update_label_labels ==
  /\ tool = "update-label" /\ pc = "lookup"
  /\ UNCHANGED tool
  /\ \E r \in Returns("get labels", Collections) :
       IF LookupFailed(r, loc.id, args.label_name)
         THEN LookupRaise("get_labels", r, "Label not found:", args.label_name)
         ELSE /\ LookupFound("get_labels", r)
              /\ UpdateRefFound(Lookup(loc.id, r.val, args.label_name))

handle_update_label_original ==
  /\ tool = "update-label" /\ pc = "get_original"
  /\ UNCHANGED <<tool, args>>
  /\ OriginalAwait("get_label", "get label", RecordsOf(loc.id))

handle_update_label_update ==
  /\ tool = "update-label" /\ pc = "update"
  /\ UNCHANGED <<tool, args, loc>>
  /\ UpdateAwait("update_label", "update label", "Failed to update label")

handle_update_label_refetch ==
  /\ tool = "update-label" /\ pc = "refetch"
  /\ UNCHANGED <<tool, args, loc>>
  /\ \E r \in Returns("get label", RecordsOf(loc.id)) :
       /\ Issue("get_label", "refetch", loc.id, NoPayload, r)
       /\ IF r.kind # "ok"
            THEN Raise(r.kind, r.msg)
            ELSE Return(<<ResponseRecord(loc.rec, r.val)>>, Absent)

handle_delete_label_entry ==
  /\ tool = "delete-label" /\ pc = "entry"
  /\ RefEntry(args.label_id, args.label_name,
              "Either label_id or label_name is required", "get_original")

handle_delete_label_labels ==
  /\ tool = "delete-label" /\ pc = "lookup"
  /\ UNCHANGED tool
  /\ \E r \in Returns("get labels", Collections) :
       IF LookupFailed(r, loc.id, args.label_name)
         THEN LookupRaise("get_labels", r, "Label not found:", args.label_name)
         ELSE /\ LookupFound("get_labels", r)
              /\ UpdateRefFound(Lookup(loc.id, r.val, args.label_name))

handle_delete_label_original ==
  /\ tool = "delete-label" /\ pc = "get_original"
  /\ UNCHANGED <<tool, args>>
  /\ BestEffortName("get_label", "get label", loc.id, RecordsOf(loc.id),
                    NameOr(args.label_name, "the label"), "delete")

handle_delete_label_delete ==
  /\ tool = "delete-label" /\ pc = "delete"
  /\ UNCHANGED <<tool, args, loc>>
  /\ FlagAwait("delete_label", "delete label", loc.id, "Failed to delete label", loc.shown)

(***************************************************************************)
(* The specification.                                                      *)
(***************************************************************************)
Next ==
  \/ register_task_tools
  \/ register_project_tools
  \/ register_label_tools
  \/ handle_call_tool
  \/ Deliver
  \/ handle_list_tasks_entry
  \/ handle_list_tasks_projects
  \/ handle_list_tasks_labels
  \/ handle_list_tasks_tasks
  \/ handle_create_task_entry
  \/ handle_create_task_projects
  \/ handle_create_task_create
  \/ handle_update_task_entry
  \/ handle_update_task_original
  \/ handle_update_task_projects
  \/ handle_update_task_update
  \/ handle_update_task_refetch
  \/ handle_complete_task_entry
  \/ handle_complete_task_original
  \/ handle_complete_task_close
  \/ handle_delete_task_entry
  \/ handle_delete_task_original
  \/ handle_delete_task_delete
  \/ handle_list_projects
  \/ handle_create_project_entry
  \/ handle_create_project_projects
  \/ handle_create_project_create
  \/ handle_create_project_parent
  \/ handle_update_project_entry
  \/ handle_update_project_projects
  \/ handle_update_project_original
  \/ handle_update_project_update
  \/ handle_update_project_refetch
  \/ handle_update_project_parent
  \/ handle_delete_project_entry
  \/ handle_delete_project_projects
  \/ handle_delete_project_original
  \/ handle_delete_project_delete
  \/ handle_list_labels
  \/ handle_create_label_entry
  \/ handle_create_label_create
  \/ handle_update_label_entry
  \/ handle_update_label_labels
  \/ handle_update_label_original
  \/ handle_update_label_update
  \/ handle_update_label_refetch
  \/ handle_delete_label_entry
  \/ handle_delete_label_labels
  \/ handle_delete_label_original
  \/ handle_delete_label_delete

Spec == Init /\ [][Next]_vars

(***************************************************************************)
(* Cancellation.  A facade method hands its remote call to the default     *)
(* executor of the loop and awaits the future.  The job waits for a worker *)
(* thread, runs on it, and finishes when the remote call has returned or   *)
(* raised.  The task of the invocation may be cancelled while it awaits:   *)
(* CancelledError is thrown into the coroutine, which no `except           *)
(* Exception` of the facade or of the task orchestrators catches.          *)
(* Cancelling the awaited future withdraws a job that no worker has taken  *)
(* up; a job that is running cannot be withdrawn.  `flight` is the job of  *)
(* the next call of the invocation.                                        *)
(***************************************************************************)
CancellableCalls ==
  {[tool |-> "update-task", args |-> [NoArgs EXCEPT !.task_id = "t1", !.project_name = pn]] :
     pn \in {Absent, "home"}}
  \cup
  {[tool |-> t, args |-> [NoArgs EXCEPT !.task_id = "t1"]] :
     t \in {"complete-task", "delete-task"}}

\* the invocation stands at an await of a facade method
AtAwait == pc \notin {"idle", "entry", "done"}
\* the job of the call the invocation is about to await, if it was submitted
Awaited == flight.n = Len(calls) + 1
Cancelled == pc = "done" /\ outcome.kind = "CancelledError"

cancellable_call_tool ==
  /\ pc = "idle"
  /\ \E c \in CancellableCalls : call_tool(c.tool, c.args)

\* loop.run_in_executor(None, lambda: self.api....): the job is queued, or
\* an idle worker takes it up at once
run_in_executor ==
  /\ AtAwait /\ ~Awaited
  /\ \E s \in {"queued", "running"} : flight' = Job(Len(calls) + 1, pc, s)
  /\ UNCHANGED <<pc, tool, args, loc, calls, outcome, registered, token, other>>

worker_start ==
  /\ flight.state = "queued"
  /\ flight' = [flight EXCEPT !.state = "running"]
  /\ UNCHANGED <<pc, tool, args, loc, calls, outcome, registered, token, other>>

\* the remote call returned or raised on the worker thread
worker_finish ==
  /\ flight.state = "running"
  /\ flight' = [flight EXCEPT !.state = "finished"]
  /\ UNCHANGED <<pc, tool, args, loc, calls, outcome, registered, token, other>>

\* (mutation of CancelJob: cancelling withdraws the job whatever its state)
CancelJob_Abort(job) == [job EXCEPT !.state = "cancelled"]

\* Future.cancel() of the job: only a job no worker has taken up is withdrawn
CancelJob(job) == IF job.state = "queued" THEN [job EXCEPT !.state = "cancelled"] ELSE job

\* the task is cancelled while it awaits the job: the invocation ends with
\* CancelledError and issues nothing more
cancel ==
  /\ AtAwait /\ Awaited
  /\ flight' = CancelJob(flight)
  /\ outcome' = [kind |-> "CancelledError", msg |-> <<>>, details |-> Absent,
                 recs |-> <<>>, shown |-> Absent]
  /\ pc' = "done"
  /\ UNCHANGED <<tool, args, loc, calls, registered, token, other>>

\* the awaited future has its result: the coroutine may resume
Resumed == Awaited /\ flight.state = "finished"

CancellableInit ==
  /\ pc = "idle"
  /\ tool = "none"
  /\ args = NoArgs
  /\ loc = NoLoc
  /\ calls = <<>>
  /\ outcome = NoOutcome
  /\ registered = <<"tasks">>
  /\ token = "secret"
  /\ other = NoInvocation
  /\ flight = NoJob

CancellableNext ==
  \/ cancellable_call_tool
  \/ run_in_executor
  \/ worker_start
  \/ worker_finish
  \/ cancel
  \/ handle_update_task_entry
  \/ Resumed /\ handle_update_task_original
  \/ Resumed /\ handle_update_task_projects
  \/ Resumed /\ handle_update_task_update
  \/ Resumed /\ handle_update_task_refetch
  \/ handle_complete_task_entry
  \/ Resumed /\ handle_complete_task_original
  \/ Resumed /\ handle_complete_task_close
  \/ handle_delete_task_entry
  \/ Resumed /\ handle_delete_task_original
  \/ Resumed /\ handle_delete_task_delete

\* a worker thread that has taken up a job runs it to its end
CancellableSpec ==
  CancellableInit /\ [][CancellableNext]_vars /\ WF_vars(worker_finish)

(***************************************************************************)
(* Two invocations on one event loop.  The server runs each request as a   *)
(* task of its own; a task runs until its next await, so a step of the     *)
(* orchestrators above is one uninterrupted segment, and the loop may      *)
(* resume the other task wherever the running one is suspended.  `other`   *)
(* is the frame of the suspended task.  Each task serves one request.      *)
(***************************************************************************)
ConcurrentCalls ==
  {[tool |-> "list-tasks", args |-> [NoArgs EXCEPT !.project_name = "home", !.completed = c]] :
     c \in {NoBool, <<TRUE>>, <<FALSE>>}}
  \cup
  {[tool |-> "list-tasks",
    args |-> [NoArgs EXCEPT !.due_today = TRUE, !.limit = <<1>>, !.completed = c]] :
     c \in {NoBool, <<TRUE>>, <<FALSE>>}}
  \cup
  {[tool |-> t, args |-> [NoArgs EXCEPT !.label_name = "home"]] :
     t \in {"update-label", "delete-label"}}

\* the collections the remote service serves while two invocations run:
\* none, one entity, or a listing of two tasks
ShortAnswers ==
  {<<>>, BigCollection(1 + 1)}
  \cup {<<Entity(i, n, Absent)>> : i \in EntityIds, n \in EntityNames}

ShortlyAnswered(cs) ==
  \A i \in DOMAIN cs :
    (cs[i].res.kind = "ok" /\ cs[i].op \in {"get_projects", "get_labels", "get_tasks"})
      => cs[i].res.val \in ShortAnswers

\* a request arrives while no task, or only a suspended one, is being served
concurrent_call_tool ==
  /\ pc = "idle"
  /\ \E c \in ConcurrentCalls : call_tool(c.tool, c.args)

\* the running task is suspended at an await or has ended, and the event
\* loop resumes the other one; the synchronous start of an orchestrator is
\* not interrupted
Switch ==
  /\ pc # "entry"
  /\ other' = Invocation(pc, tool, args, loc, calls, outcome)
  /\ pc' = other.pc
  /\ tool' = other.tool
  /\ args' = other.args
  /\ loc' = other.loc
  /\ calls' = other.calls
  /\ outcome' = other.outcome
  /\ UNCHANGED <<registered, token, flight>>

ConcurrentInit ==
  /\ pc = "idle"
  /\ tool = "none"
  /\ args = NoArgs
  /\ loc = NoLoc
  /\ calls = <<>>
  /\ outcome = NoOutcome
  /\ registered \in {<<"tasks">>, Groups}
  /\ token = "secret"
  /\ other = NoInvocation
  /\ flight = NoJob

ConcurrentNext ==
  \/ concurrent_call_tool
  \/ Switch
  \/ handle_list_tasks_entry
  \/ handle_list_tasks_projects /\ ShortlyAnswered(calls')
  \/ handle_list_tasks_tasks /\ ShortlyAnswered(calls')
  \/ handle_update_label_entry
  \/ handle_update_label_labels /\ ShortlyAnswered(calls')
  \/ handle_update_label_original
  \/ handle_update_label_update
  \/ handle_update_label_refetch
  \/ handle_delete_label_entry
  \/ handle_delete_label_labels /\ ShortlyAnswered(calls')
  \/ handle_delete_label_original
  \/ handle_delete_label_delete

ConcurrentSpec == ConcurrentInit /\ [][ConcurrentNext]_vars

(***************************************************************************)
(* Vocabulary of the properties.                                           *)
(***************************************************************************)
Done == pc = "done"

\* the references a tool accepts by name: the list call that resolves one, and
\* the identifier and the name the caller gave for it
Ref(kind, op, id, name) == [kind |-> kind, op |-> op, id |-> id, name |-> name]
Refs ==
  CASE tool = "list-tasks" ->
         {Ref("project", "get_projects", args.project_id, args.project_name),
          Ref("label", "get_labels", args.label_id, args.label_name)}
    [] tool \in {"create-task", "update-task"} ->
         {Ref("project", "get_projects", args.project_id, args.project_name)}
    [] tool = "create-project" ->
         {Ref("parent", "get_projects", args.parent_id, args.parent_name)}
    [] tool \in {"update-project", "delete-project"} ->
         {Ref("entity", "get_projects", args.project_id, args.project_name)}
    [] tool \in {"update-label", "delete-label"} ->
         {Ref("entity", "get_labels", args.label_id, args.label_name)}
    [] OTHER -> {}

\* a remote call that is handed the identifier of the reference
Carries(ref, c) ==
  CASE ref.kind = "project" -> c.op \in {"get_tasks", "create_task", "update_task"}
    [] ref.kind = "label" -> c.op = "get_tasks"
    [] ref.kind = "parent" -> c.op = "create_project" \/ c.role = "parent"
    [] ref.kind = "entity" -> c.role \in {"original", "name", "mutation", "refetch"}

\* the identifier it is handed
Carried(ref, c) ==
  CASE ref.kind = "project" -> c.pl.project_id
    [] ref.kind = "label" -> c.pl.label_id
    [] ref.kind = "parent" -> IF c.op = "create_project" THEN c.pl.parent_id ELSE c.id
    [] ref.kind = "entity" -> c.id

\* the list calls that resolved the reference and were answered
LookupsOf(ref) ==
  {i \in DOMAIN calls :
     calls[i].role = "lookup" /\ calls[i].op = ref.op /\ calls[i].res.kind = "ok"}

\* positions of the entities of a collection that bear the name, whatever the case
Matching(coll, name) == {i \in DOMAIN coll : Lower(coll[i].name) = Lower(name)}

\* the invocation ended, right after call i, with the given kind of error
EndedAfter(i, kind) == i = Len(calls) /\ Done /\ outcome.kind = kind

MutatingTools ==
  {"create-task", "update-task", "create-project", "update-project", "delete-project",
   "update-label", "delete-label"}

(***************************************************************************)
(* C1: wherever a name stands in for an identifier, the lookup yields the  *)
(* identifier of the first entity, in collection order, whose name equals  *)
(* the given name case-insensitively; that identifier is the one handed to *)
(* the calls that follow; and ValidationError is raised if and only if no  *)
(* entity of the collection matches.                                       *)
(***************************************************************************)
C1_FirstMatchResolution ==
  \A ref \in Refs : \A i \in LookupsOf(ref) :
    LET coll == calls[i].res.val
        hits == Matching(coll, ref.name)
    IN  /\ EndedAfter(i, "ValidationError") <=> hits = {}
        /\ hits # {} =>
             \A j \in DOMAIN calls :
               (j > i /\ Carries(ref, calls[j])) =>
                 Carried(ref, calls[j]) = coll[SetMin(hits)].id

(***************************************************************************)
(* C2: when both a non-empty identifier and a name are given for the same  *)
(* reference, no list call is issued for that reference and the given      *)
(* identifier is handed unchanged to the remote calls.                     *)
(***************************************************************************)
C2_IdentifierPrecedence ==
  \A ref \in Refs :
    (Truthy(ref.id) /\ ref.name # Absent) =>
      /\ \A i \in DOMAIN calls : ~(calls[i].role = "lookup" /\ calls[i].op = ref.op)
      /\ \A i \in DOMAIN calls : Carries(ref, calls[i]) => Carried(ref, calls[i]) = ref.id

\* an invocation given both went through to its mutation with the identifier
C2_Witness ==
  /\ Done /\ outcome.kind = "ok"
  /\ \E ref \in Refs :
       /\ Truthy(ref.id) /\ Truthy(ref.name)
       /\ \E i \in DOMAIN calls : calls[i].role = "mutation" /\ Carries(ref, calls[i])

(***************************************************************************)
(* C3: in a mutating tool, when the given name matches no entity of the    *)
(* fetched collection and no usable identifier is given, the invocation    *)
(* ends with ValidationError naming the unmatched value and no create,     *)
(* update or delete call is issued.                                        *)
(***************************************************************************)
C3_UnmatchedNameStopsMutation ==
  tool \in MutatingTools =>
    \A ref \in Refs : \A i \in LookupsOf(ref) :
      (Matching(calls[i].res.val, ref.name) = {} /\ ~Truthy(ref.id)) =>
        /\ Done /\ outcome.kind = "ValidationError"
        /\ \E k \in DOMAIN outcome.msg : outcome.msg[k] = ref.name
        /\ \A j \in DOMAIN calls : calls[j].role # "mutation"

UpdateTools == {"update-task", "update-project", "update-label"}
CreateTools == {"create-task", "create-project", "create-label"}
ListTools == {"list-tasks", "list-projects", "list-labels"}

\* the mutation calls that came back with a value
Mutations == {i \in DOMAIN calls : calls[i].role = "mutation" /\ calls[i].res.kind = "ok"}

(***************************************************************************)
(* C4: in the update tools, whenever the update call returns a truthy flag *)
(* a get of the same identifier is issued strictly after it, and the       *)
(* record surfaced is the result of that get.                              *)
(***************************************************************************)
C4_RefetchAfterUpdate ==
  tool \in UpdateTools =>
    \A i \in Mutations :
      calls[i].res.val =>
        /\ i = Len(calls) => pc = "refetch"
        /\ i < Len(calls) =>
             /\ calls[i + 1].role = "refetch"
             /\ calls[i + 1].op \in {"get_task", "get_project", "get_label"}
             /\ calls[i + 1].id = calls[i].id
        /\ (Done /\ outcome.kind = "ok") => outcome.recs = <<calls[i + 1].res.val>>

\* an update whose surfaced record differs from the record read before it
C4_Witness ==
  /\ tool \in UpdateTools /\ Done /\ outcome.kind = "ok"
  /\ \E i \in DOMAIN calls : calls[i].role = "original" /\ calls[i].res.val # outcome.recs[1]

(***************************************************************************)
(* C5 as stated: in the create tools, after the create call succeeds a     *)
(* read of the created entity is issued and its result is what is          *)
(* surfaced.                                                               *)
(***************************************************************************)
C5_RefetchAfterCreate ==
  (tool \in CreateTools /\ Done) =>
    \A i \in Mutations :
      \E j \in DOMAIN calls :
        /\ j > i
        /\ calls[j].id = calls[i].res.val.id
        /\ outcome.kind = "ok" => outcome.recs = <<calls[j].res.val>>

(***************************************************************************)
(* C5 as amended: in the create tools, after the create call succeeds no   *)
(* read of the created entity is issued (create-project alone goes on to   *)
(* one call, the best-effort get of the parent project) and the record     *)
(* surfaced is the one the create call returned.                           *)
(***************************************************************************)
C5_CreateResultSurfaced ==
  tool \in CreateTools =>
    \A i \in Mutations :
      /\ \A j \in DOMAIN calls :
           j > i => /\ tool = "create-project"
                    /\ calls[j].role = "parent"
                    /\ calls[j].id = calls[i].pl.parent_id
                    /\ calls[j].id # calls[i].res.val.id
      /\ Done => outcome.kind = "ok" /\ outcome.recs = <<calls[i].res.val>>

\* a create whose surfaced record is not the echo of the request
C5_Witness ==
  /\ tool \in CreateTools /\ Done /\ outcome.kind = "ok"
  /\ outcome.recs[1].name \notin {args.content, args.name}

\* list-tasks was called with no filter_string, both due flags and priority 3
C6_Case ==
  /\ tool = "list-tasks"
  /\ args.filter_string = Absent /\ args.due_today /\ args.due_upcoming
  /\ args.priority = <<3>>

GetTasksCalls == {i \in DOMAIN calls : calls[i].op = "get_tasks"}

(***************************************************************************)
(* C6 as stated: in that case the filter handed to get-tasks is            *)
(* "(((today) & (today | overdue | 7 days)) & p3)".                        *)
(***************************************************************************)
C6_SpecLiteral ==
  C6_Case =>
    \A i \in GetTasksCalls :
      calls[i].pl.filter_string = "(((today) & (today | overdue | 7 days)) & p3)"

(***************************************************************************)
(* C6 as amended: in that case the filter handed to get-tasks is           *)
(* "((today) & (today | overdue | 7 days)) & p3": the last clause is       *)
(* appended to the parenthesized accumulator and the whole is not wrapped. *)
(***************************************************************************)
C6_ComposedLiteral ==
  C6_Case =>
    \A i \in GetTasksCalls :
      calls[i].pl.filter_string = "((today) & (today | overdue | 7 days)) & p3"

C6_Witness == C6_Case /\ GetTasksCalls # {}

\* a clause: its text when it starts the accumulator, and when it is appended
Clause(bare, joined) == [bare |-> bare, joined |-> joined]

\* left-to-right fold of the clauses over the accumulator
RECURSIVE FoldClauses(_, _)
FoldClauses(acc, clauses) ==
  IF clauses = <<>>
    THEN acc
    ELSE FoldClauses(IF Truthy(acc) THEN "(" \o acc \o ") & " \o Head(clauses).joined
                                    ELSE Head(clauses).bare,
                     Tail(clauses))

\* the active clauses in the fixed order, the due-upcoming clause appended as upcoming
ActiveClauses(upcoming) ==
  (IF args.due_today THEN <<Clause("today", "today")>> ELSE <<>>)
  \o (IF args.due_upcoming THEN <<Clause("today | overdue | 7 days", upcoming)>> ELSE <<>>)
  \o (IF TruthyInt(args.priority)
        THEN <<Clause("p" \o ToString(args.priority[1]), "p" \o ToString(args.priority[1]))>>
        ELSE <<>>)

(***************************************************************************)
(* C7 as stated: the filter handed to get-tasks is the left-to-right fold  *)
(* over the active clauses base, `today`, `today | overdue | 7 days`,      *)
(* `p{N}`, each clause added to a non-empty accumulator giving             *)
(* `(` accumulator `) & ` clause; with no active clause the base is passed *)
(* through unchanged.                                                      *)
(***************************************************************************)
C7_SpecFold ==
  tool = "list-tasks" =>
    \A i \in GetTasksCalls :
      calls[i].pl.filter_string =
        FoldClauses(args.filter_string, ActiveClauses("today | overdue | 7 days"))

(***************************************************************************)
(* C7 as amended: the same fold, except that the due-upcoming clause is    *)
(* appended to a non-empty accumulator in parentheses, as                  *)
(* `(today | overdue | 7 days)`; a priority clause is active when the      *)
(* priority is given and is not 0.                                         *)
(***************************************************************************)
C7_ComposedFold ==
  tool = "list-tasks" =>
    \A i \in GetTasksCalls :
      calls[i].pl.filter_string =
        FoldClauses(args.filter_string, ActiveClauses("(today | overdue | 7 days)"))

\* every clause is active on top of a non-empty base
C7_Witness ==
  /\ tool = "list-tasks" /\ GetTasksCalls # {}
  /\ Truthy(args.filter_string) /\ args.due_today /\ args.due_upcoming
  /\ TruthyInt(args.priority)

\* a list tool surfaced records under a requested limit
ListedUnder(low) ==
  /\ tool \in ListTools /\ Done /\ outcome.kind = "ok"
  /\ args.limit # NoInt /\ args.limit[1] >= low

\* what the remote list call of a list tool returned
Returned == calls[Len(calls)].res.val

Least(a, b) == IF a < b THEN a ELSE b

IsPrefix(p, s) == Len(p) <= Len(s) /\ p = SubSeq(s, 1, Len(p))

(***************************************************************************)
(* C8 as stated: for every requested limit L and every sequence returned   *)
(* by the remote list call, a list tool surfaces at most                   *)
(* min(L, number returned) records, and they are a prefix of the sequence. *)
(***************************************************************************)
C8_SpecTruncation ==
  ListedUnder(0) =>
    /\ Len(outcome.recs) <= Least(args.limit[1], Len(Returned))
    /\ IsPrefix(outcome.recs, Returned)

\* the first min(L, number returned) records of the returned sequence
KeptPrefix == SubSeq(Returned, 1, Least(args.limit[1], Len(Returned)))

NoRepeats(s) == \A i, j \in DOMAIN s : s[i] = s[j] => i = j

(***************************************************************************)
(* C8 as amended: for every requested limit L >= 1 and every sequence      *)
(* returned by the remote list call, a list tool surfaces at most          *)
(* min(L, number returned) records, each of them one of the first          *)
(* min(L, number returned) records of the sequence and none twice:         *)
(* list-tasks surfaces exactly that prefix in its order, list-labels all   *)
(* of the prefix in sorted order, list-projects the records of the prefix  *)
(* that the project tree shows.                                            *)
(***************************************************************************)
C8_TruncationFromOne ==
  ListedUnder(1) =>
    /\ Len(outcome.recs) <= Least(args.limit[1], Len(Returned))
    /\ Range(outcome.recs) \subseteq Range(KeptPrefix)
    /\ NoRepeats(outcome.recs)
    /\ tool = "list-tasks" => outcome.recs = KeptPrefix
    /\ tool = "list-labels" => Range(outcome.recs) = Range(KeptPrefix)

\* a listing was cut down to the limit
C8_Witness ==
  /\ ListedUnder(1) /\ Len(outcome.recs) = args.limit[1]
  /\ Len(outcome.recs) < Len(Returned)

\* the requested limit clamped into LimitMin..LimitMax, LimitDefault when absent
EffectiveCap(limit) ==
  IF limit = NoInt THEN LimitDefault
  ELSE IF limit[1] < LimitMin THEN LimitMin
  ELSE IF limit[1] > LimitMax THEN LimitMax
  ELSE limit[1]

(***************************************************************************)
(* C9: in every list tool the cap on the surfaced records is the requested *)
(* limit clamped into 1..100, and 50 when no limit is given; a limit above *)
(* 100 does not make the call fail.                                        *)
(***************************************************************************)
C9_ClampedCap ==
  (tool \in ListTools /\ Done) =>
    /\ outcome.kind # "PydanticValidationError"
    /\ outcome.kind = "ok" => Len(outcome.recs) <= EffectiveCap(args.limit)

\* the remote call raised an error whose text holds the word Unauthorized
Unauthorized(c) == \E k \in DOMAIN c.res.raw : c.res.raw[k] = "Unauthorized"

\* the gets whose failure the orchestrators swallow: the get of the name
\* before complete and delete, and the get of the parent project
BestEffortRoles == {"name", "parent"}

(***************************************************************************)
(* C10 as stated: if any remote call of the invocation raises an error     *)
(* whose message contains "Unauthorized", the outcome is                   *)
(* AuthenticationError.                                                    *)
(***************************************************************************)
C10_SpecAuthAlways ==
  Done =>
    \A i \in DOMAIN calls : Unauthorized(calls[i]) => outcome.kind = "AuthenticationError"

(***************************************************************************)
(* C10 as amended: if a remote call other than a best-effort name get (the *)
(* get before complete-task and before the delete tools, the get of the    *)
(* parent project in create-project and update-project) raises an error    *)
(* whose message contains "Unauthorized", the invocation ends there with   *)
(* AuthenticationError.                                                    *)
(***************************************************************************)
C10_AuthSurfaced ==
  \A i \in DOMAIN calls :
    (Unauthorized(calls[i]) /\ calls[i].role \notin BestEffortRoles) =>
      EndedAfter(i, "AuthenticationError")

\* a mutation call was refused and the invocation ended with AuthenticationError
C10_Witness ==
  /\ Done /\ outcome.kind = "AuthenticationError"
  /\ \E i \in DOMAIN calls : Unauthorized(calls[i]) /\ calls[i].role = "mutation"

\* the remote call raised an exception
Failed(c) == c.res.raw # <<>>

\* the words of text stand, in their order, somewhere in msg
ContainsText(msg, text) ==
  \E k \in 1..(Len(msg) - Len(text) + 1) : SubSeq(msg, k, k + Len(text) - 1) = text

(***************************************************************************)
(* C11: whenever the remote call under a facade method raises, the method  *)
(* raises AuthenticationError if the text of the exception contains        *)
(* "Unauthorized" and TodoistError otherwise, the message of the           *)
(* TodoistError contains the text of the exception, and the method does    *)
(* not return a value.                                                     *)
(***************************************************************************)
C11_FacadeErrorMapping ==
  \A i \in DOMAIN calls :
    Failed(calls[i]) =>
      /\ calls[i].res.kind \in {"AuthenticationError", "TodoistError"}
      /\ calls[i].res.kind = "AuthenticationError" <=> Unauthorized(calls[i])
      /\ calls[i].res.kind = "TodoistError" => ContainsText(calls[i].res.msg, calls[i].res.raw)
      /\ calls[i].res.val = Absent

\* one invocation saw a remote failure of each kind
C11_Witness ==
  \E i, j \in DOMAIN calls :
    /\ Failed(calls[i]) /\ calls[i].res.kind = "TodoistError"
    /\ Failed(calls[j]) /\ calls[j].res.kind = "AuthenticationError"

Entered == pc # "idle" /\ tool \in ListedTools /\ Truthy(token)

\* the ten tools that create, update, complete or delete an entity
TenMutatingTools == Tools \ ListTools

\* the required field of the tool is absent from the arguments
RequiredAbsent ==
  CASE tool = "create-task" -> args.content = Absent
    [] tool \in {"update-task", "complete-task", "delete-task"} -> args.task_id = Absent
    [] tool \in {"create-project", "create-label"} -> args.name = Absent
    [] tool \in {"update-project", "delete-project"} ->
         args.project_id = Absent /\ args.project_name = Absent
    [] tool \in {"update-label", "delete-label"} ->
         args.label_id = Absent /\ args.label_name = Absent
    [] OTHER -> FALSE

(***************************************************************************)
(* C13: in each of the ten mutating tools, when the required field         *)
(* (content, task_id, name, or both the identifier and the name of the     *)
(* entity) is absent, the invocation issues no remote call and ends with   *)
(* ValidationError.                                                        *)
(***************************************************************************)
C13_RequiredFieldValidated ==
  (Entered /\ tool \in TenMutatingTools /\ RequiredAbsent) =>
    /\ calls = <<>>
    /\ Done => outcome.kind = "ValidationError"

\* the tools whose mutation call answers with a success flag
FlagTools == TenMutatingTools \ CreateTools

\* the message of the error a falsy flag is turned into
FailedText(t) ==
  CASE t = "update-task" -> "Failed to update task"
    [] t = "complete-task" -> "Failed to complete task"
    [] t = "delete-task" -> "Failed to delete task"
    [] t = "update-project" -> "Failed to update project"
    [] t = "delete-project" -> "Failed to delete project"
    [] t = "update-label" -> "Failed to update label"
    [] t = "delete-label" -> "Failed to delete label"

\* the mutation call came back with a falsy flag
FalsyFlag(c) == c.role = "mutation" /\ c.res.kind = "ok" /\ c.res.val = FALSE

(***************************************************************************)
(* C14: in the update, complete and delete tools, when the mutation call   *)
(* returns a falsy flag the invocation ends at that call with TodoistError *)
(* "Failed to <verb> <entity>": no call follows it (no re-fetch) and no    *)
(* success is surfaced.                                                    *)
(***************************************************************************)
C14_FalsyFlagFails ==
  tool \in FlagTools =>
    \A i \in DOMAIN calls :
      FalsyFlag(calls[i]) =>
        /\ EndedAfter(i, "TodoistError")
        /\ outcome.msg = <<FailedText(tool)>>
        /\ outcome.recs = <<>> /\ outcome.shown = Absent

\* an update call came back with a falsy flag
C14_Witness ==
  /\ tool \in UpdateTools /\ Done
  /\ \E i \in DOMAIN calls : FalsyFlag(calls[i])

DeleteTools == {"delete-task", "delete-project", "delete-label"}

\* the facade method a delete tool ends with
DeleteOp(t) ==
  CASE t = "delete-task" -> "delete_task"
    [] t = "delete-project" -> "delete_project"
    [] t = "delete-label" -> "delete_label"

\* the name the confirmation shows when the pre-delete get failed: the name
\* the caller supplied, if any, or else the placeholder
FallbackName ==
  CASE tool = "delete-task" -> "the task"
    [] tool = "delete-project" ->
         IF Truthy(args.project_name) THEN args.project_name ELSE "the project"
    [] tool = "delete-label" ->
         IF Truthy(args.label_name) THEN args.label_name ELSE "the label"

(***************************************************************************)
(* C15: in delete-task, delete-project and delete-label, whatever error    *)
(* the get before the delete raises, the delete call for the same          *)
(* identifier is the next call issued, its result alone decides the        *)
(* outcome (success exactly when it returns a truthy flag), and the        *)
(* confirmation shows the fallback name: the supplied name if there is     *)
(* one, else the placeholder.                                              *)
(***************************************************************************)
C15_DeleteDespiteFailedGet ==
  tool \in DeleteTools =>
    \A i \in DOMAIN calls :
      (calls[i].role = "name" /\ Failed(calls[i])) =>
        /\ i = Len(calls) => pc = "delete" /\ outcome.kind = "none"
        /\ i < Len(calls) =>
             /\ Len(calls) = i + 1 /\ Done
             /\ calls[i + 1].op = DeleteOp(tool)
             /\ calls[i + 1].role = "mutation"
             /\ calls[i + 1].id = calls[i].id
             /\ outcome.kind = "ok" <=>
                  (calls[i + 1].res.kind = "ok" /\ calls[i + 1].res.val = TRUE)
             /\ calls[i + 1].res.kind # "ok" => outcome.kind = calls[i + 1].res.kind
             /\ outcome.kind = "ok" => outcome.shown = FallbackName

\* a delete confirmed under the name the caller supplied, the get of the
\* project having failed
C15_Witness ==
  /\ tool = "delete-project" /\ Done /\ outcome.kind = "ok"
  /\ Truthy(args.project_name)
  /\ outcome.shown = args.project_name
  /\ \E i \in DOMAIN calls : calls[i].role = "name" /\ Failed(calls[i])

\* the failure of call i left the orchestrator: the invocation ended at that
\* call with the error the facade raised
Propagated(i) ==
  /\ EndedAfter(i, calls[i].res.kind)
  /\ outcome.msg = calls[i].res.msg

(***************************************************************************)
(* C16 as stated: the only failure an orchestrator swallows is that of the *)
(* get before a delete; every other failed call, the reads of              *)
(* complete-task, create-project and update-project included, propagates.  *)
(***************************************************************************)
C16_SpecOnlyDeleteSwallows ==
  \A i \in DOMAIN calls :
    (Failed(calls[i]) /\ ~(tool \in DeleteTools /\ calls[i].role = "name")) =>
      Propagated(i)

(***************************************************************************)
(* C16, amended: the failures an orchestrator swallows are those of the    *)
(* get before the mutation in delete-task, delete-project, delete-label    *)
(* and complete-task, after which the invocation goes on to the mutation,  *)
(* and those of the get of the parent project that ends create-project     *)
(* and update-project, after which the result is still surfaced.  The      *)
(* failure of any other call ends the invocation at that call with the     *)
(* error the facade raised.                                                *)
(***************************************************************************)
C16_SwallowedFailures ==
  \A i \in DOMAIN calls :
    Failed(calls[i]) =>
      CASE calls[i].role = "name" ->
             /\ tool \in DeleteTools \cup {"complete-task"}
             /\ i = Len(calls) => pc \in {"close", "delete"} /\ outcome.kind = "none"
             /\ i < Len(calls) => calls[i + 1].role = "mutation"
        [] calls[i].role = "parent" ->
             /\ tool \in {"create-project", "update-project"}
             /\ i = Len(calls) /\ Done /\ outcome.kind = "ok"
             /\ outcome.shown = calls[i].id
        [] OTHER -> Propagated(i)

\* complete-task succeeded although its get of the task failed
C16_Witness ==
  /\ tool = "complete-task" /\ Done /\ outcome.kind = "ok"
  /\ \E i \in DOMAIN calls : calls[i].role = "name" /\ Failed(calls[i])

\* the input model of the tool rejects the arguments
LocalValidationFails ==
  \/ tool = "list-tasks" /\ ~LimitFieldOk(args.limit)
  \/ tool = "create-task" /\ (args.content = Absent \/ ~PriorityFieldOk(args.priority))

(***************************************************************************)
(* C17: a local validation failure that is a ValueError (the input model   *)
(* rejecting a limit or a priority, for instance) reaches the caller as    *)
(* the ValidationError of the taxonomy.                                    *)
(***************************************************************************)
C17_ValueErrorNormalized ==
  (Entered /\ Done /\ LocalValidationFails) => outcome.kind = "ValidationError"

(***************************************************************************)
(* C18: an error that is neither of the taxonomy nor a ValueError leaves   *)
(* the invocation as the generic MCPError, not a subclass, whose details   *)
(* carry the name of the failing operation; errors of the taxonomy pass    *)
(* unchanged, so nothing outside the taxonomy reaches the caller.          *)
(***************************************************************************)
C18_OthersBecomeMCPError ==
  (Entered /\ Done /\ outcome.kind # "ok" /\ ~IsValueError(outcome.kind)) =>
    /\ IsMCPError(outcome.kind)
    /\ outcome.kind = "MCPError" => outcome.details # Absent
    /\ \A i \in DOMAIN calls :
         (Failed(calls[i]) /\ i = Len(calls) /\ calls[i].role \notin BestEffortRoles) =>
           Propagated(i)

\* register_tools has run to its end
AllRegistered == registered = Groups

\* the dispatcher found no tool of that name
UnknownTool ==
  Done /\ outcome.kind = "ValueError" /\ outcome.msg = <<"Unknown tool:", tool>>

(***************************************************************************)
(* C19: once register_tools has registered the task, project and label     *)
(* groups, all thirteen tools are listed, and a call of any of the         *)
(* thirteen names is dispatched to its orchestrator, never answered with   *)
(* "Unknown tool".                                                         *)
(***************************************************************************)
C19_AllThirteenServed ==
  AllRegistered =>
    /\ ListedTools = Tools
    /\ tool \in Tools => ~UnknownTool

LabelFavoriteDeclared == TRUE
\* the default the input schema of create-project declares for favorite
ProjectFavoriteDeclared == FALSE

(***************************************************************************)
(* C21: when create-label is invoked without `favorite`, the favorite      *)
(* value passed to the remote create-label call is true, the default its   *)
(* schema declares; when create-project is invoked without `favorite`, the *)
(* value passed is false.                                                  *)
(***************************************************************************)
C21_DeclaredFavoriteDefault ==
  args.favorite = NoBool =>
    \A i \in DOMAIN calls :
      /\ calls[i].op = "create_label" => calls[i].pl.favorite = LabelFavoriteDeclared
      /\ calls[i].op = "create_project" => calls[i].pl.favorite = ProjectFavoriteDeclared

\* the priorities the remote service knows
Priorities == 1..4

\* the filters list-tasks can have accumulated before the priority clause
Accumulators ==
  {Compose(b, dt, du, NoInt) : b \in {Absent, "", "@work"}, dt \in BOOLEAN, du \in BOOLEAN}

\* the filter ends in the clause p{n}
EndsInPriority(fs, n) ==
  \/ fs = "p" \o ToString(n)
  \/ \E acc \in Accumulators : Truthy(acc) /\ fs = "(" \o acc \o ") & p" \o ToString(n)

(***************************************************************************)
(* C22: every priority that reaches the remote service lies in 1..4:       *)
(* create-task and update-task pass no priority outside 1..4, list-tasks   *)
(* emits no clause p{N} with N outside 1..4, and create-task invoked       *)
(* without a priority passes priority 1.                                   *)
(***************************************************************************)
C22_PriorityInRange ==
  \A i \in DOMAIN calls :
    /\ calls[i].op \in {"create_task", "update_task"} =>
         (calls[i].pl.priority # NoInt => calls[i].pl.priority[1] \in Priorities)
    /\ calls[i].op = "get_tasks" =>
         \A n \in {0, 5, 7} : ~EndsInPriority(calls[i].pl.filter_string, n)
    /\ (calls[i].op = "create_task" /\ args.priority = NoInt) =>
         calls[i].pl.priority = <<1>>

\* the identifiers of the entities of a collection
IdsOf(coll) == {coll[k].id : k \in DOMAIN coll}

\* the reference is given by name, without a usable identifier
ByName(ref) == Truthy(ref.name) /\ ~Truthy(ref.id)

(***************************************************************************)
(* C25: nothing resolved or fetched survives an invocation: whenever a     *)
(* remote call is handed an identifier for a reference given by name, a    *)
(* list call for that reference was issued and answered earlier in the     *)
(* same invocation, and the identifier is one of the collection that call  *)
(* returned, never one kept from elsewhere.                                *)
(***************************************************************************)
C25_NoCaching ==
  \A ref \in Refs : \A j \in DOMAIN calls :
    (ByName(ref) /\ Carries(ref, calls[j])) =>
      \E i \in LookupsOf(ref) :
        /\ i < j
        /\ Carried(ref, calls[j]) \in IdsOf(calls[i].res.val)


\* the calls of the invocation that stand at the given statement
WithRole(role) == {i \in DOMAIN calls : calls[i].role = role}

(***************************************************************************)
(* C26: in update-task, update-project and update-label the remote calls   *)
(* come in the order get of the original, update, confirmatory get, each   *)
(* issued once and on the same identifier; in update-task the list call    *)
(* that resolves a project name lies between the get of the original and   *)
(* the update.  The get of the original is not best-effort: if it fails    *)
(* the invocation ends at that call with that error and no update call is  *)
(* issued.                                                                 *)
(***************************************************************************)
C26_UpdateOrder ==
  tool \in UpdateTools =>
    /\ \A role \in {"original", "mutation", "refetch"} : Cardinality(WithRole(role)) <= 1
    /\ \A j \in WithRole("mutation") :
         \E i \in WithRole("original") :
           i < j /\ calls[i].res.kind = "ok" /\ calls[i].id = calls[j].id
    /\ \A k \in WithRole("refetch") :
         \E j \in Mutations : j < k /\ calls[j].res.val /\ calls[j].id = calls[k].id
    /\ tool = "update-task" =>
         \A l \in WithRole("lookup") :
           /\ \E i \in WithRole("original") : i < l
           /\ \A j \in WithRole("mutation") : l < j
    /\ \A i \in WithRole("original") :
         Failed(calls[i]) => Propagated(i) /\ WithRole("mutation") = {}

\* update-task went through its four calls, the project resolved by name
C26_Witness ==
  /\ tool = "update-task" /\ Done /\ outcome.kind = "ok"
  /\ Len(calls) = 4
  /\ calls[1].role = "original" /\ calls[2].role = "lookup"
  /\ calls[3].role = "mutation" /\ calls[4].role = "refetch"

\* list-projects answered with its tree
TreeRendered == tool = "list-projects" /\ Done /\ outcome.kind = "ok"

\* the projects list-projects keeps after the truncation
Kept == TruncateListing(Returned, args.limit)

\* how often a record stands in a sequence
Occurrences(p, s) == Cardinality({i \in DOMAIN s : s[i] = p})

(***************************************************************************)
(* C27: in list-projects, for every collection of projects, whatever their *)
(* parent pointers, and every limit, each project kept after the           *)
(* truncation appears exactly once in the rendered tree: none is dropped   *)
(* and none is rendered twice.                                             *)
(***************************************************************************)
C27_EachKeptOnce ==
  TreeRendered =>
    \A k \in DOMAIN Kept : Occurrences(Kept[k], outcome.recs) = 1

\* two kept projects are each other's parent, or one is its own
HasCycle(projects) ==
  \E a, b \in DOMAIN projects :
    /\ projects[a].parent_id = projects[b].id
    /\ projects[b].parent_id = projects[a].id

(***************************************************************************)
(* C28: the recursive rendering of the project tree terminates for every   *)
(* finite collection and every assignment of parent identifiers, cycles    *)
(* and self-parents included: the recursion never goes deeper than there   *)
(* are projects, and format_project is entered at most once per kept       *)
(* project.                                                                *)
(***************************************************************************)
C28_RenderingTerminates ==
  TreeRendered =>
    /\ \A k \in DOMAIN outcome.recs : outcome.recs[k] # Diverges
    /\ Len(outcome.recs) <= Len(Kept)

\* a listing with a parent cycle was rendered, next to a root that was shown
C28_Witness ==
  /\ TreeRendered
  /\ HasCycle(Kept)
  /\ outcome.recs # <<>>

\* what an invocation asks of the remote service in one call
Request(c) == [op |-> c.op, id |-> c.id, pl |-> c.pl]
Shorter == IF Len(calls) <= Len(other.calls) THEN Len(calls) ELSE Len(other.calls)
\* the two invocations received the same answers to their first n calls
SameAnswers(n) == \A i \in 1..n : calls[i].res = other.calls[i].res
\* the running and the suspended invocation took the same course: each call
\* of one is the call of the other as long as the answers before it agree,
\* neither goes on where the other has ended, and they end alike
SameCourse ==
  /\ \A k \in 1..Shorter :
       SameAnswers(k - 1) => Request(calls[k]) = Request(other.calls[k])
  /\ SameAnswers(Shorter) =>
       /\ (pc = "done" /\ Len(calls) = Shorter) => Len(other.calls) = Shorter
       /\ (other.pc = "done" /\ Len(other.calls) = Shorter) => Len(calls) = Shorter
       /\ (pc = "done" /\ other.pc = "done") => outcome = other.outcome

(***************************************************************************)
(* C23: for every interleaving of two concurrent invocations, the order    *)
(* and the arguments of the remote calls of an invocation depend only on   *)
(* its own argument mapping and on the answers to its own calls: two       *)
(* invocations of one tool with one argument mapping, interleaved in any   *)
(* way, issue the same call whenever they were answered alike so far, and  *)
(* surface the same outcome when they were answered alike throughout.      *)
(***************************************************************************)
C23_OwnStateOnly ==
  (tool # "none" /\ tool = other.tool /\ args = other.args) => SameCourse

\* two label deletions by the same name both ended; they were served the
\* same collection, then one get failed and the other did not
C23_Witness ==
  /\ pc = "done" /\ other.pc = "done"
  /\ tool = "delete-label" /\ other.tool = "delete-label"
  /\ args = other.args
  /\ Len(calls) >= 3 /\ Len(other.calls) >= 3
  /\ calls[1].res = other.calls[1].res
  /\ calls[2].res.kind = "ok" /\ other.calls[2].res.kind # "ok"

ListCallsOf(ref) == {i \in DOMAIN calls : calls[i].role = "lookup" /\ calls[i].op = ref.op}

(***************************************************************************)
(* C30: the identifier a name-based invocation hands to its create, update *)
(* or delete call is the identifier of an entity that bore the given name, *)
(* whatever the case, in the collection served to the one list call of     *)
(* that invocation; the name is looked up once, before the mutation, and   *)
(* not again.                                                              *)
(***************************************************************************)
C30_IdentifierFromOwnLookup ==
  \A ref \in Refs : \A j \in DOMAIN calls :
    (ByName(ref) /\ calls[j].role = "mutation" /\ Carries(ref, calls[j])) =>
      /\ Cardinality(ListCallsOf(ref)) = 1
      /\ \E i \in LookupsOf(ref) :
           /\ i < j
           /\ \E k \in Matching(calls[i].res.val, ref.name) :
                Carried(ref, calls[j]) = calls[i].res.val[k].id

====
